---- MODULE Spec2Model ----
(***************************************************************************)
(* Umbrella destination-list cleanup: the age filter (main.py), the        *)
(* candidate selector (destination_cleanup_selector.py) and the batch      *)
(* deletion engine (umbrella_delete.py).                                   *)
(*                                                                         *)
(* Time is measured in whole days (timedelta(days=n) is n units).  A CSV   *)
(* file is the sequence of its data rows; a row is a record of the raw     *)
(* (string) cells createdAt, observedInDefender and id.  An optional value *)
(* (Python None) is a sequence of length 0 or 1.                           *)
(***************************************************************************)
EXTENDS Integers, Sequences, FiniteSets, TLC

MaxRows == 2        \* rows of the exported CSV
MaxDays == 1        \* largest day threshold the operator enters

MaxLen == 250       \* longest ID list handed to the deletion engine
BatchSize == 100    \* delete_destinations(batch_size=100)

VARIABLES
    clock,      \* the current UTC time, in days
    srcCsv,     \* the exported destination CSV
    aged,       \* filter_by_created_age: its locals and the file it wrote
    sel,        \* run_cleanup_selector: its locals and the files it wrote
    ids_json,   \* the ID-list JSON file handed to the deletion engine
    mpc,        \* main(): where step 5 (optional deletion) stands
    preflight,  \* main(): the operator answered yes to its live-delete confirmation
    eng,        \* run_umbrella_delete / delete_destinations: locals of the current call
    fail_file,  \* the "<ids>_failed.json" file, if written
    xck         \* run_defender_crosscheck: its input, locals and the file it wrote

pipeVars == <<clock, srcCsv, aged, sel>>
delVars == <<ids_json, mpc, preflight, eng, fail_file>>
xVars == <<xck>>
vars == <<clock, srcCsv, aged, sel, ids_json, mpc, preflight, eng, fail_file, xck>>

(* ---------------- raw cells ---------------- *)

\* A timestamp cell: missing/empty, text no format accepts, the CSV format
\* "YYYY-MM-DD HH:MM:SS", or ISO-8601 with a "T" and a UTC offset
\* (off = 0 stands for "Z" and for a zone-less value).
Blank == [fmt |-> "blank", t |-> 0, off |-> 0]
Junk == [fmt |-> "junk", t |-> 0, off |-> 0]
Csv(t) == [fmt |-> "csv", t |-> t, off |-> 0]
Iso(t, off) == [fmt |-> "iso", t |-> t, off |-> off]

\* An id cell: no value (None), the empty string, text int() accepts (its
\* value is n), any other non-empty text (int() raises ValueError).
IdMissing == [kind |-> "missing", n |-> 0]
IdEmpty == [kind |-> "empty", n |-> 0]
IdInt(n) == [kind |-> "int", n |-> n]
IdText == [kind |-> "text", n |-> 0]

Days == 0 .. MaxDays
\* Instants around the first "now" (Init: clock = MaxDays).
Times == (MaxDays - 1) .. (MaxDays + 1)

CreatedRaws == {Blank, Junk, Iso(MaxDays + 1, 1)} \cup {Csv(t) : t \in Times}
ObsRaws == {Blank, Junk} \cup {Csv(t) : t \in Times}

(* ---------------- utils/timestamps.py ---------------- *)

parse_timestamp(value) ==
    IF value.fmt = "blank" THEN <<>>
    ELSE IF value.fmt = "iso" THEN <<value.t - value.off>>
    ELSE IF value.fmt = "csv" THEN <<value.t>>
    ELSE <<>>

(* ---------------- CSV files ---------------- *)

\* csv.DictWriter writes a None cell as the empty string.
WriteCell(id) == IF id.kind = "missing" THEN IdEmpty ELSE id

WriteRow(row) == [row EXCEPT !.id = WriteCell(row.id)]

WriteCsv(rows) == [i \in 1 .. Len(rows) |-> WriteRow(rows[i])]

(* ---------------- main.py: filter_by_created_age ---------------- *)

AgeKeepStrict(row, cutoff) ==
    LET created == parse_timestamp(row.createdAt)
    IN  created = <<>> \/ created[1] < cutoff

AgeKeep(row, cutoff) ==
    LET created == parse_timestamp(row.createdAt)
    IN  created = <<>> \/ created[1] <= cutoff

RECURSIVE AgeLoop(_, _, _, _)
AgeLoop(rows, cutoff, kept, too_new) ==
    IF rows = <<>> THEN [kept |-> kept, too_new |-> too_new]
    ELSE IF AgeKeep(Head(rows), cutoff)
         THEN AgeLoop(Tail(rows), cutoff, Append(kept, Head(rows)), too_new)
         ELSE AgeLoop(Tail(rows), cutoff, kept, too_new + 1)

NoAged == [done |-> FALSE, days |-> 0, now |-> 0, cutoff |-> 0, total |-> 0,
           kept |-> <<>>, too_new |-> 0, file |-> <<>>]

filter_by_created_age(created_days) ==
    /\ ~aged.done
    /\ sel.pc = "idle"
    /\ LET now == clock
           cutoff == now - created_days
           r == AgeLoop(srcCsv, cutoff, <<>>, 0)
       IN  aged' = [done |-> TRUE, days |-> created_days, now |-> now,
                    cutoff |-> cutoff, total |-> Len(srcCsv), kept |-> r.kept,
                    too_new |-> r.too_new, file |-> WriteCsv(r.kept)]
    /\ clock' \in {clock, clock + 1}
    /\ UNCHANGED <<srcCsv, sel>>
    /\ UNCHANGED <<delVars, xVars>>

(* ---------------- destination_cleanup_selector.py ---------------- *)

\* Line 44: created_at is None or created_at <= cutoff_created.
created_match_strict(row, cutoff_created) ==
    LET created_at == parse_timestamp(row.createdAt)
    IN  created_at = <<>> \/ created_at[1] < cutoff_created

created_match(row, cutoff_created) ==
    LET created_at == parse_timestamp(row.createdAt)
    IN  created_at = <<>> \/ created_at[1] <= cutoff_created

\* Line 58: last_seen is None or last_seen <= cutoff_defender.
defender_inactive_strict(row, cutoff_defender) ==
    LET last_seen == parse_timestamp(row.observedInDefender)
    IN  last_seen = <<>> \/ last_seen[1] < cutoff_defender

defender_inactive(row, cutoff_defender) ==
    LET last_seen == parse_timestamp(row.observedInDefender)
    IN  last_seen = <<>> \/ last_seen[1] <= cutoff_defender

\* The selection loop: created_matches, defender_inactive_matches, candidates.
\* cutoff_defender is optional (<<>> when defender_days is None).
RECURSIVE SelectLoop(_, _, _, _)
SelectLoop(rows, cutoff_created, cutoff_defender, acc) ==
    IF rows = <<>> THEN acc
    ELSE LET row == Head(rows)
         IN  IF ~created_match(row, cutoff_created)
             THEN SelectLoop(Tail(rows), cutoff_created, cutoff_defender, acc)
             ELSE IF cutoff_defender = <<>> \/ defender_inactive(row, cutoff_defender[1])
             THEN SelectLoop(Tail(rows), cutoff_created, cutoff_defender,
                      [created_matches |-> acc.created_matches + 1,
                       defender_inactive_matches |-> acc.defender_inactive_matches + 1,
                       candidates |-> Append(acc.candidates, row)])
             ELSE SelectLoop(Tail(rows), cutoff_created, cutoff_defender,
                      [acc EXCEPT !.created_matches = @ + 1])

\* Line 89: the truth value of row.get("id").
id_present_unless_none(id) == id.kind # "missing"

id_present(id) == id.kind \notin {"missing", "empty"}

\* Line 89: int(row["id"]) for row in candidates if row.get("id"): the list,
\* or a ValueError at the first id that int() rejects.
RECURSIVE IdList(_, _)
IdList(candidates, ids) ==
    IF candidates = <<>> THEN [ok |-> TRUE, ids |-> ids]
    ELSE LET id == Head(candidates).id
         IN  IF ~id_present(id) THEN IdList(Tail(candidates), ids)
             ELSE IF id.kind = "int" THEN IdList(Tail(candidates), Append(ids, id.n))
             ELSE [ok |-> FALSE, ids |-> <<>>]

NoSel == [pc |-> "idle", input |-> "none", created_days |-> 0, defender_days |-> <<>>,
          now |-> 0, total |-> 0, created_matches |-> 0,
          defender_inactive_matches |-> 0, candidates |-> <<>>,
          cleanup_csv |-> <<>>, ids_json |-> <<>>]

run_cleanup_selector(input, rows, created_days, defender_days) ==
    /\ sel.pc = "idle"
    /\ LET now == clock
           cutoff_created == now - created_days
           cutoff_defender == IF defender_days = <<>> THEN <<>>
                              ELSE <<now - defender_days[1]>>
           r == SelectLoop(rows, cutoff_created, cutoff_defender,
                           [created_matches |-> 0, defender_inactive_matches |-> 0,
                            candidates |-> <<>>])
           id_list == IdList(r.candidates, <<>>)
       IN  sel' = [pc |-> IF id_list.ok THEN "done" ELSE "raised",
                   input |-> input,
                   created_days |-> created_days, defender_days |-> defender_days,
                   now |-> now, total |-> Len(rows),
                   created_matches |-> r.created_matches,
                   defender_inactive_matches |-> r.defender_inactive_matches,
                   candidates |-> r.candidates,
                   cleanup_csv |-> <<WriteCsv(r.candidates)>>,
                   ids_json |-> IF id_list.ok THEN <<id_list.ids>> ELSE <<>>]
    /\ UNCHANGED <<clock, srcCsv, aged>>
    /\ UNCHANGED <<delVars, xVars>>

\* main.py hands the selector the age-filtered file and the same threshold.
SelectAfterAgeFilter ==
    /\ aged.done
    /\ \E defender_days \in {<<>>} \cup {<<d>> : d \in Days} :
           run_cleanup_selector("aged", aged.file, aged.days, defender_days)

\* The selector run on its own (--file, --created-days, --defender-days).
SelectStandalone ==
    /\ ~aged.done
    /\ \E created_days \in Days, defender_days \in {<<>>} \cup {<<d>> : d \in Days} :
           run_cleanup_selector("src", srcCsv, created_days, defender_days)

AgeFilter == \E created_days \in Days : filter_by_created_age(created_days)

(* ---------------- umbrella_delete.py ---------------- *)

SuccessCodes == {200, 202, 204}
StatusCodes == SuccessCodes \cup {201, 500}

\* What a delete request can end in: an answer with a status, or an
\* exception of the HTTP library (no answer).
DeleteOutcomes == {<<s>> : s \in StatusCodes} \cup {<<>>}

Min(a, b) == IF a < b THEN a ELSE b

\* ids[i:i + batch_size]
ChunkShort(ids, i, batch_size) == SubSeq(ids, i + 1, Min(i + batch_size - 1, Len(ids)))

Chunk(ids, i, batch_size) == SubSeq(ids, i + 1, Min(i + batch_size, Len(ids)))

NoEng == [pc |-> "idle", dry_run |-> FALSE, ids |-> <<>>, prompts |-> 0,
          token_calls |-> 0, auth |-> "none", i |-> 0, deleted |-> 0, failures |-> <<>>,
          requests |-> <<>>, responses |-> <<>>, sleeps |-> 0,
          would_delete |-> <<>>, result |-> "unset"]

\* run_umbrella_delete, lines 88-105: load the ID list, then either ask for
\* confirmation (live) or go on to authentication (dry run).
EngineCallAlwaysAsks(dry_run) ==
    [NoEng EXCEPT !.pc = "confirm", !.dry_run = dry_run, !.ids = ids_json]

EngineCall(dry_run) ==
    [NoEng EXCEPT !.pc = IF dry_run THEN "auth" ELSE "confirm",
                  !.dry_run = dry_run,
                  !.ids = ids_json]

\* main(), after run_umbrella_delete returned `result` (lines 210-226).
AfterDelete(result) == IF result = "DRY_RUN" THEN "offer_live" ELSE "done"

(* main(), step 5 *)

ask_delete_mode(mode) ==
    /\ mpc = "ask_mode"
    /\ \/ /\ mode = "no"
          /\ mpc' = "done"
          /\ UNCHANGED eng
       \/ /\ mode = "yes"
          /\ mpc' = "confirm"
          /\ UNCHANGED eng
       \/ /\ mode = "dry"
          /\ mpc' = "in_delete"
          /\ eng' = EngineCall(TRUE)
    /\ UNCHANGED <<ids_json, preflight, fail_file>>
    /\ UNCHANGED <<pipeVars, xVars>>

\* "Are you absolutely sure you want to delete these destinations?"
confirm_live_ignores_answer(yes) ==
    /\ mpc = "confirm"
    /\ preflight' = yes
    /\ mpc' = "in_delete"
    /\ eng' = EngineCall(FALSE)
    /\ UNCHANGED <<ids_json, fail_file>>
    /\ UNCHANGED <<pipeVars, xVars>>

confirm_live(yes) ==
    /\ mpc = "confirm"
    /\ IF yes
       THEN /\ preflight' = TRUE
            /\ mpc' = "in_delete"
            /\ eng' = EngineCall(FALSE)
       ELSE /\ mpc' = "done"
            /\ UNCHANGED <<preflight, eng>>
    /\ UNCHANGED <<ids_json, fail_file>>
    /\ UNCHANGED <<pipeVars, xVars>>

\* "Dry run complete. Do you want to perform the LIVE deletion now?"
offer_live(yes) ==
    /\ mpc = "offer_live"
    /\ mpc' = IF yes THEN "confirm_after_dry" ELSE "done"
    /\ UNCHANGED <<ids_json, preflight, eng, fail_file>>
    /\ UNCHANGED <<pipeVars, xVars>>

\* "Are you absolutely sure?"
confirm_after_dry(yes) ==
    /\ mpc = "confirm_after_dry"
    /\ IF yes
       THEN /\ preflight' = TRUE
            /\ mpc' = "in_delete_again"
            /\ eng' = EngineCall(FALSE)
       ELSE /\ mpc' = "done"
            /\ UNCHANGED <<preflight, eng>>
    /\ UNCHANGED <<ids_json, fail_file>>
    /\ UNCHANGED <<pipeVars, xVars>>

(* run_umbrella_delete *)

\* Where main() goes when the call in progress returns `result`: the second
\* call (line 214) ignores the result.
Return(result) == IF mpc = "in_delete" THEN AfterDelete(result) ELSE "done"

\* Lines 101-105: the engine's own prompt on the live path.
engine_confirm_skipped(answer) ==
    /\ eng.pc = "confirm"
    /\ eng' = [eng EXCEPT !.pc = "auth"]
    /\ UNCHANGED mpc

engine_confirm(answer) ==
    /\ eng.pc = "confirm"
    /\ IF answer \in {"y", "yes"}
       THEN /\ eng' = [eng EXCEPT !.pc = "auth", !.prompts = @ + 1]
            /\ UNCHANGED mpc
       ELSE /\ eng' = [eng EXCEPT !.pc = "returned", !.prompts = @ + 1,
                                  !.result = "None"]
            /\ mpc' = Return("None")

EngineConfirm ==
    /\ \E answer \in {"y", "yes", "n", ""} : engine_confirm(answer)
    /\ UNCHANGED <<ids_json, preflight, fail_file>>
    /\ UNCHANGED <<pipeVars, xVars>>

\* get_umbrella_token (lines 20-34) and, on a dry run, lines 109-113.
\* outcome: "no_credentials" (SystemExit before any request), "refused" (the
\* answer is not 200: SystemExit), "error" (the request raises), "ok".
get_umbrella_token_unchecked(outcome) ==
    /\ eng.pc = "auth"
    /\ IF outcome = "no_credentials"
       THEN /\ eng' = [eng EXCEPT !.pc = "raised", !.auth = outcome,
                                  !.result = "SystemExit"]
            /\ mpc' = "exit"
       ELSE IF outcome = "error"
       THEN /\ eng' = [eng EXCEPT !.pc = "raised", !.token_calls = @ + 1,
                                  !.auth = outcome, !.result = "Exception"]
            /\ mpc' = "exit"
       ELSE IF eng.dry_run
       THEN /\ eng' = [eng EXCEPT !.pc = "returned", !.token_calls = @ + 1,
                                  !.auth = outcome, !.would_delete = <<eng.ids>>,
                                  !.result = "DRY_RUN"]
            /\ mpc' = Return("DRY_RUN")
       ELSE /\ eng' = [eng EXCEPT !.pc = "loop", !.token_calls = @ + 1,
                                  !.auth = outcome]
            /\ UNCHANGED mpc

get_umbrella_token(outcome) ==
    /\ eng.pc = "auth"
    /\ IF outcome = "no_credentials"
       THEN /\ eng' = [eng EXCEPT !.pc = "raised", !.auth = outcome,
                                  !.result = "SystemExit"]
            /\ mpc' = "exit"
       ELSE IF outcome = "refused"
       THEN /\ eng' = [eng EXCEPT !.pc = "raised", !.token_calls = @ + 1,
                                  !.auth = outcome, !.result = "SystemExit"]
            /\ mpc' = "exit"
       ELSE IF outcome = "error"
       THEN /\ eng' = [eng EXCEPT !.pc = "raised", !.token_calls = @ + 1,
                                  !.auth = outcome, !.result = "Exception"]
            /\ mpc' = "exit"
       ELSE IF eng.dry_run
       THEN /\ eng' = [eng EXCEPT !.pc = "returned", !.token_calls = @ + 1,
                                  !.auth = outcome, !.would_delete = <<eng.ids>>,
                                  !.result = "DRY_RUN"]
            /\ mpc' = Return("DRY_RUN")
       ELSE /\ eng' = [eng EXCEPT !.pc = "loop", !.token_calls = @ + 1,
                                  !.auth = outcome]
            /\ UNCHANGED mpc

Authenticate ==
    /\ \E outcome \in {"no_credentials", "refused", "error", "ok"} :
           get_umbrella_token(outcome)
    /\ UNCHANGED <<ids_json, preflight, fail_file>>
    /\ UNCHANGED <<pipeVars, xVars>>

(* delete_destinations *)

\* Lines 68-73: the bookkeeping for one answered batch.
account_always_fails(e, chunk, status) ==
    IF status \in SuccessCodes
    THEN [e EXCEPT !.deleted = @ + Len(chunk), !.failures = @ \o chunk]
    ELSE [e EXCEPT !.failures = @ \o chunk]

account_2xx(e, chunk, status) ==
    IF status \in 200 .. 299
    THEN [e EXCEPT !.deleted = @ + Len(chunk)]
    ELSE [e EXCEPT !.failures = @ \o chunk]

account(e, chunk, status) ==
    IF status \in SuccessCodes
    THEN [e EXCEPT !.deleted = @ + Len(chunk)]
    ELSE [e EXCEPT !.failures = @ \o chunk]

\* Lines 56-73: one iteration up to the pause: send the chunk, read the answer.
send_batch(outcome) ==
    /\ eng.pc = "loop"
    /\ eng.i < Len(eng.ids)
    /\ LET chunk == Chunk(eng.ids, eng.i, BatchSize)
           sent == [eng EXCEPT !.requests = Append(@, chunk)]
       IN  IF outcome = <<>>
           THEN /\ eng' = [sent EXCEPT !.pc = "raised", !.result = "Exception"]
                /\ mpc' = "exit"
           ELSE /\ eng' = [account(sent, chunk, outcome[1]) EXCEPT
                               !.pc = "sleep",
                               !.responses = Append(@, outcome[1])]
                /\ UNCHANGED mpc

SendBatch ==
    /\ \E outcome \in DeleteOutcomes : send_batch(outcome)
    /\ UNCHANGED <<ids_json, preflight, fail_file>>
    /\ UNCHANGED <<pipeVars, xVars>>

\* Line 75 and the loop's step: time.sleep(0.2), then i += batch_size.
PauseNoSleep ==
    /\ eng.pc = "sleep"
    /\ eng' = [eng EXCEPT !.pc = "loop", !.i = @ + BatchSize]
    /\ UNCHANGED <<ids_json, mpc, preflight, fail_file>>
    /\ UNCHANGED <<pipeVars, xVars>>

Pause ==
    /\ eng.pc = "sleep"
    /\ eng' = [eng EXCEPT !.pc = "loop", !.sleeps = @ + 1, !.i = @ + BatchSize]
    /\ UNCHANGED <<ids_json, mpc, preflight, fail_file>>
    /\ UNCHANGED <<pipeVars, xVars>>

\* Lines 117-129, after the loop: the summary, the failed-IDs file, the return.
\* written: whether open()/json.dump of the failed-IDs file succeeds.
finish(written) ==
    /\ eng.pc = "loop"
    /\ eng.i >= Len(eng.ids)
    /\ IF eng.failures = <<>>
       THEN /\ written
            /\ eng' = [eng EXCEPT !.pc = "returned", !.result = "deleted"]
            /\ mpc' = Return("deleted")
            /\ UNCHANGED fail_file
       ELSE IF written
       THEN /\ eng' = [eng EXCEPT !.pc = "returned", !.result = "deleted"]
            /\ mpc' = Return("deleted")
            /\ fail_file' = <<eng.failures>>
       ELSE /\ eng' = [eng EXCEPT !.pc = "raised", !.result = "Exception"]
            /\ mpc' = "exit"
            /\ UNCHANGED fail_file

Finish ==
    /\ \E written \in BOOLEAN : finish(written)
    /\ UNCHANGED <<ids_json, preflight>>
    /\ UNCHANGED <<pipeVars, xVars>>

(* ---------------- defender_crosscheck.py ---------------- *)

\* Destination cells: empty, whitespace only, a domain.
Destinations == {"", " ", "a.example"}

\* What get_defender_token() can end in: a token, a falsy value, an exception.
DefenderTokenOutcomes == {"token", "none", "raises"}

\* Line 106: if not token.
token_missing_unchecked(token) == FALSE

token_missing(token) == token = "none"

\* What the advanced-hunting request can end in: a network or HTTP error, an
\* answer without result rows, an answer whose first row has Timestamp ts.
LookupOutcomes ==
    {[kind |-> "error", ts |-> Blank], [kind |-> "empty", ts |-> Blank]}
        \cup {[kind |-> "rows", ts |-> ts] : ts \in {Junk, Iso(MaxDays, 0), Iso(MaxDays, 1)}}

\* Lines 40-46: the answer's JSON, or None (<<>>) when the request failed; the
\* except clause keeps the failure from leaving the function.
run_defender_kql_uncaught(outcome) ==
    [raised |-> outcome.kind = "error",
     json |-> IF outcome.kind = "error" THEN <<>> ELSE <<outcome>>]

run_defender_kql(outcome) ==
    [raised |-> FALSE,
     json |-> IF outcome.kind = "error" THEN <<>> ELSE <<outcome>>]

\* Lines 54-69: the latest observation as a "YYYY-MM-DD HH:MM:SS" cell, or "".
get_latest_defender_observation(outcome) ==
    LET result == run_defender_kql(outcome)
    IN  IF result.raised THEN [raised |-> TRUE, value |-> Blank]
        ELSE IF result.json = <<>> \/ result.json[1].kind = "empty"
        THEN [raised |-> FALSE, value |-> Blank]
        ELSE LET dt == parse_timestamp(result.json[1].ts)
             IN  [raised |-> FALSE,
                  value |-> IF dt = <<>> THEN Blank ELSE Csv(dt[1])]

\* Line 116: row.get("destination", "").strip()
domain_unstripped(row) == row.destination

domain_of(row) == IF row.destination = " " THEN "" ELSE row.destination

NoXck == [pc |-> "idle", rows |-> <<>>, token |-> "unset", k |-> 1,
          lookups |-> <<>>, enriched_rows |-> <<>>, out |-> <<>>,
          result |-> "unset"]

\* Lines 92-107: load the CSV; with no rows return the input path, else get
\* the token.
begin_crosscheck(token) ==
    /\ xck.pc = "idle"
    /\ IF Len(xck.rows) = 0
       THEN xck' = [xck EXCEPT !.pc = "returned", !.result = "input"]
       ELSE IF token = "raises"
       THEN xck' = [xck EXCEPT !.pc = "raised", !.token = token,
                               !.result = "Exception"]
       ELSE IF token_missing(token)
       THEN xck' = [xck EXCEPT !.pc = "raised", !.token = token,
                               !.result = "SystemExit"]
       ELSE xck' = [xck EXCEPT !.pc = "loop", !.token = token]
    /\ UNCHANGED <<pipeVars, delVars>>

BeginCrosscheck == \E token \in DefenderTokenOutcomes : begin_crosscheck(token)

\* Lines 115-132: one row of the loop.
lookup_row(outcome) ==
    /\ xck.pc = "loop"
    /\ xck.k <= Len(xck.rows)
    /\ LET row == xck.rows[xck.k]
           domain == domain_of(row)
           seen == get_latest_defender_observation(outcome)
       IN  IF domain = ""
           THEN xck' = [xck EXCEPT
                            !.k = @ + 1,
                            !.enriched_rows =
                                Append(@, [row EXCEPT !.observedInDefender = Blank])]
           ELSE IF seen.raised
           THEN xck' = [xck EXCEPT
                            !.pc = "raised", !.result = "Exception",
                            !.lookups = Append(@, [k |-> xck.k, outcome |-> outcome])]
           ELSE xck' = [xck EXCEPT
                            !.k = @ + 1,
                            !.lookups = Append(@, [k |-> xck.k, outcome |-> outcome]),
                            !.enriched_rows =
                                Append(@, [row EXCEPT !.observedInDefender = seen.value])]
    /\ UNCHANGED <<pipeVars, delVars>>

LookupRow == \E outcome \in LookupOutcomes : lookup_row(outcome)

\* Lines 134-144: write the enriched CSV and return its path.
\* written: whether open() and the writer succeed.
write_enriched(written) ==
    /\ xck.pc = "loop"
    /\ xck.k > Len(xck.rows)
    /\ IF written
       THEN xck' = [xck EXCEPT !.pc = "returned", !.result = "enriched",
                               !.out = <<WriteCsv(xck.enriched_rows)>>]
       ELSE xck' = [xck EXCEPT !.pc = "raised", !.result = "OSError"]
    /\ UNCHANGED <<pipeVars, delVars>>

WriteEnriched == \E written \in BOOLEAN : write_enriched(written)

\* The CSVs handed to the crosscheck: ids by position, any destination, with
\* or without an earlier observedInDefender value.
CrosscheckInputs ==
    UNION {{[i \in 1 .. n |-> [id |-> IdInt(i), destination |-> d[i],
                               observedInDefender |-> o[i]]] :
            d \in [1 .. n -> Destinations], o \in [1 .. n -> {Blank, Csv(MaxDays)}]} :
           n \in 0 .. MaxRows}

(* ---------------- the pipeline ---------------- *)

IdRaws == {IdMissing, IdEmpty, IdInt(1), IdInt(2), IdText}

\* An export whose ids are the integers the service assigns.
TimedExports ==
    UNION {{[i \in 1 .. n |-> [createdAt |-> c[i], observedInDefender |-> o[i],
                               id |-> IdInt(i)]] :
            c \in [1 .. n -> CreatedRaws], o \in [1 .. n -> ObsRaws]} : n \in 0 .. MaxRows}

\* An operator-supplied CSV whose id column is damaged.
DamagedExports ==
    UNION {{[i \in 1 .. n |-> [createdAt |-> c[i], observedInDefender |-> Blank,
                               id |-> d[i]]] :
            c \in [1 .. n -> {Junk, Csv(MaxDays + 1)}], d \in [1 .. n -> IdRaws]} :
           n \in 0 .. MaxRows}

Init ==
    /\ clock = MaxDays
    /\ srcCsv \in TimedExports \cup DamagedExports
    /\ aged = NoAged
    /\ sel = NoSel
    /\ ids_json = <<>>
    /\ mpc = "off"
    /\ preflight = FALSE
    /\ eng = NoEng
    /\ fail_file = <<>>
    /\ xck = NoXck

Next ==
    \/ AgeFilter
    \/ SelectAfterAgeFilter
    \/ SelectStandalone

Spec == Init /\ [][Next]_vars

(* ---------------- the deletion step ---------------- *)

\* ID lists of every length: distinct ids in descending order, or ids that repeat.
Descending(n) == [i \in 1 .. n |-> n + 1 - i]
Repeating(n) == [i \in 1 .. n |-> (i % 3) + 1]

IdLists == {Descending(n) : n \in 0 .. MaxLen} \cup {Repeating(n) : n \in 0 .. MaxLen}

InitDelete ==
    /\ clock = 0
    /\ srcCsv = <<>>
    /\ aged = NoAged
    /\ sel = NoSel
    /\ ids_json \in IdLists
    /\ mpc = "ask_mode"
    /\ preflight = FALSE
    /\ eng = NoEng
    /\ fail_file = <<>>
    /\ xck = NoXck

AskDeleteMode ==  \E mode \in {"yes", "no", "dry"} : ask_delete_mode(mode)
ConfirmLive == \E yes \in BOOLEAN : confirm_live(yes)
OfferLive == \E yes \in BOOLEAN : offer_live(yes)
ConfirmAfterDry == \E yes \in BOOLEAN : confirm_after_dry(yes)

NextDelete ==
    \/ AskDeleteMode
    \/ ConfirmLive
    \/ OfferLive
    \/ ConfirmAfterDry
    \/ EngineConfirm
    \/ Authenticate
    \/ SendBatch
    \/ Pause
    \/ Finish

SpecDelete == InitDelete /\ [][NextDelete]_vars

(* ---------------- the crosscheck stage ---------------- *)

InitCrosscheck ==
    /\ clock = 0
    /\ srcCsv = <<>>
    /\ aged = NoAged
    /\ sel = NoSel
    /\ ids_json = <<>>
    /\ mpc = "off"
    /\ preflight = FALSE
    /\ eng = NoEng
    /\ fail_file = <<>>
    /\ xck \in {[NoXck EXCEPT !.rows = rows] : rows \in CrosscheckInputs}

NextCrosscheck ==
    \/ BeginCrosscheck
    \/ LookupRow
    \/ WriteEnriched

SpecCrosscheck == InitCrosscheck /\ [][NextCrosscheck]_vars

(* ======================= properties ======================= *)

RECURSIVE Flatten(_)
Flatten(chunks) == IF chunks = <<>> THEN <<>> ELSE Head(chunks) \o Flatten(Tail(chunks))

Ceil(n, d) == (n + d - 1) \div d

\* The rows the selector loaded.
SelInput == IF sel.input = "aged" THEN aged.file ELSE srcCsv

Unparseable(raw) == parse_timestamp(raw) = <<>>
Instant(raw) == parse_timestamp(raw)[1]

AgeQualifies(row, cutoff) ==
    Unparseable(row.createdAt) \/ Instant(row.createdAt) <= cutoff

Inactive(row, cutoff) ==
    Unparseable(row.observedInDefender) \/ Instant(row.observedInDefender) <= cutoff

SelCutoffCreated == sel.now - sel.created_days
SelCutoffDefender == sel.now - sel.defender_days[1]

\* C1: with defender_days given, the candidates are exactly the loaded rows
\* that are age-qualifying (createdAt unparseable or <= now - created_days)
\* and inactive (observedInDefender absent/unparseable or <= now -
\* defender_days), in input order; no row seen in Defender strictly after the
\* inactivity cutoff is a candidate.
C1_CandidatesIffBothCriteria ==
    (sel.pc # "idle" /\ sel.defender_days # <<>>) =>
        /\ sel.candidates =
               SelectSeq(SelInput, LAMBDA row :
                   AgeQualifies(row, SelCutoffCreated) /\ Inactive(row, SelCutoffDefender))
        /\ \A k \in 1 .. Len(sel.candidates) :
               /\ AgeQualifies(sel.candidates[k], SelCutoffCreated)
               /\ ~(/\ ~Unparseable(sel.candidates[k].observedInDefender)
                    /\ Instant(sel.candidates[k].observedInDefender) > SelCutoffDefender)

\* An age-qualifying row seen after the inactivity cutoff was left out, a row
\* seen exactly at the cutoff was taken.
C1_Witness ==
    /\ sel.pc = "done"
    /\ sel.defender_days # <<>>
    /\ \E k \in 1 .. Len(SelInput) :
           /\ AgeQualifies(SelInput[k], SelCutoffCreated)
           /\ ~Inactive(SelInput[k], SelCutoffDefender)
    /\ \E k \in 1 .. Len(sel.candidates) :
           /\ ~Unparseable(sel.candidates[k].observedInDefender)
           /\ Instant(sel.candidates[k].observedInDefender) = SelCutoffDefender
    /\ Len(sel.candidates) < sel.created_matches

\* C2: the age filter keeps exactly the rows whose createdAt is unparseable
\* or <= the one cutoff now - created_days, in input order, counts every
\* other row as too new, and kept + too_new = total.
C2_AgeFilterPartition ==
    aged.done =>
        /\ aged.cutoff = aged.now - aged.days
        /\ aged.kept = SelectSeq(srcCsv, LAMBDA row : AgeQualifies(row, aged.cutoff))
        /\ aged.too_new =
               Cardinality({k \in 1 .. Len(srcCsv) : ~AgeQualifies(srcCsv[k], aged.cutoff)})
        /\ aged.total = Len(srcCsv)
        /\ Len(aged.kept) + aged.too_new = aged.total

\* A row created exactly created_days ago was kept while another was too new.
C2_Witness ==
    /\ aged.done
    /\ aged.days > 0
    /\ aged.too_new > 0
    /\ \E k \in 1 .. Len(aged.kept) :
           /\ ~Unparseable(aged.kept[k].createdAt)
           /\ Instant(aged.kept[k].createdAt) = aged.now - aged.days

\* C3: run without an inactivity criterion on the age filter's output with
\* the same threshold, the selector's candidates are that file's rows, in order.
C3_NoCriterionIsIdentity ==
    (sel.pc # "idle" /\ sel.input = "aged" /\ sel.defender_days = <<>>
        /\ sel.created_days = aged.days) =>
        /\ sel.candidates = aged.file
        /\ sel.created_matches = Len(aged.file)
        /\ sel.cleanup_csv = <<aged.file>>

\* The selector ran later than the age filter, on a file that lost a row and
\* holds a row created exactly at the filter's cutoff.
C3_Witness ==
    /\ sel.pc = "done"
    /\ sel.input = "aged"
    /\ sel.defender_days = <<>>
    /\ sel.now > aged.now
    /\ aged.too_new > 0
    /\ \E k \in 1 .. Len(sel.candidates) :
           /\ ~Unparseable(sel.candidates[k].createdAt)
           /\ Instant(sel.candidates[k].createdAt) = aged.cutoff

IdBlank(id) == id.kind \in {"missing", "empty"}

\* C4: when the selector completes, the ID list is the integer ids of the
\* candidates with a non-blank id, in candidate order, and every candidate
\* is a row of the candidate CSV; the selector raises only if some candidate
\* has a non-blank id that is no integer (never for a missing or blank id).
C4_IdListSkipsBlankIds ==
    /\ sel.pc = "done" =>
           LET with_id == SelectSeq(sel.candidates, LAMBDA row : ~IdBlank(row.id))
           IN  /\ \A k \in 1 .. Len(with_id) : with_id[k].id.kind = "int"
               /\ sel.ids_json = <<[k \in 1 .. Len(with_id) |-> with_id[k].id.n]>>
    /\ sel.pc \in {"done", "raised"} =>
           /\ sel.cleanup_csv # <<>>
           /\ Len(sel.cleanup_csv[1]) = Len(sel.candidates)
           /\ \A k \in 1 .. Len(sel.candidates) :
                  /\ sel.cleanup_csv[1][k].createdAt = sel.candidates[k].createdAt
                  /\ IdBlank(sel.candidates[k].id) => sel.cleanup_csv[1][k].id = IdEmpty
    /\ sel.pc = "raised" =>
           \E k \in 1 .. Len(sel.candidates) : sel.candidates[k].id.kind = "text"

\* Two candidates, one with an integer id and one with none: one id listed,
\* two CSV rows.
C4_Witness ==
    /\ sel.pc = "done"
    /\ Len(sel.candidates) = 2
    /\ \E k \in 1 .. 2 : IdBlank(sel.candidates[k].id)
    /\ sel.ids_json # <<>>
    /\ Len(sel.ids_json[1]) = 1
    /\ Len(sel.cleanup_csv[1]) = 2

\* C5: no defect of a single record aborts the selector: whenever it has
\* run, it completed and wrote both the candidate CSV and the ID-list JSON.
C5_SelectorNeverAborts ==
    sel.pc # "idle" =>
        /\ sel.pc = "done"
        /\ sel.cleanup_csv # <<>>
        /\ sel.ids_json # <<>>

\* delete_destinations has run its loop to the end.
LoopDone == eng.pc = "loop" /\ eng.i >= Len(eng.ids)
DeleteCompleted == LoopDone \/ eng.result = "deleted"

\* C6: every delete request carries a contiguous slice of 1..100 ids, the
\* payloads concatenated in issue order are a prefix of the ID list, and
\* once the loop has completed there were exactly ceil(L/100) requests whose
\* payloads concatenate to the whole list ([100, 100, 50] for L = 250).
C6_BatchesPartitionTheList ==
    LET sent == Flatten(eng.requests)
    IN  /\ \A k \in 1 .. Len(eng.requests) : Len(eng.requests[k]) \in 1 .. 100
        /\ \A k \in 1 .. Len(eng.requests) - 1 : Len(eng.requests[k]) = 100
        /\ Len(sent) <= Len(eng.ids)
        /\ sent = SubSeq(eng.ids, 1, Len(sent))
        /\ DeleteCompleted =>
               /\ Len(eng.requests) = Ceil(Len(eng.ids), 100)
               /\ sent = eng.ids
               /\ Len(eng.ids) = 250 =>
                      [k \in 1 .. 3 |-> Len(eng.requests[k])] = <<100, 100, 50>>

\* A list of 250 ids went out as three requests.
C6_Witness ==
    /\ eng.result = "deleted"
    /\ Len(eng.ids) = 250
    /\ Len(eng.requests) = 3
    /\ Len(eng.requests[3]) = 50

Succeeded(k) == eng.responses[k] \in {200, 202, 204}

\* The ids of the batches answered with a failure, and the size of those
\* answered with a success, among the first k answers.
RECURSIVE FailedIdsUpTo(_)
FailedIdsUpTo(k) ==
    IF k = 0 THEN <<>>
    ELSE FailedIdsUpTo(k - 1) \o (IF Succeeded(k) THEN <<>> ELSE eng.requests[k])
RECURSIVE DeletedUpTo(_)
DeletedUpTo(k) ==
    IF k = 0 THEN 0
    ELSE DeletedUpTo(k - 1) + (IF Succeeded(k) THEN Len(eng.requests[k]) ELSE 0)

\* C7: deleted is the total size of the batches answered 200, 202 or 204,
\* failures is the ids of the batches answered anything else, in order; and
\* a failed batch does not end the loop: while ids remain after it, the next
\* request can be sent, and a completed run has an answer for every batch.
C7_PerBatchAttribution ==
    /\ eng.deleted = DeletedUpTo(Len(eng.responses))
    /\ eng.failures = FailedIdsUpTo(Len(eng.responses))
    /\ (eng.pc = "loop" /\ eng.i < Len(eng.ids)) => ENABLED SendBatch
    /\ (eng.pc = "sleep") => ENABLED Pause
    /\ eng.result = "deleted" => Len(eng.responses) = Ceil(Len(eng.ids), 100)

\* Batch 2 of 3 failed: the first and third batch are counted, the second is
\* the failure list.
C7_Witness ==
    /\ eng.result = "deleted"
    /\ Len(eng.responses) = 3
    /\ Succeeded(1) /\ ~Succeeded(2) /\ Succeeded(3)
    /\ eng.deleted = Len(eng.requests[1]) + Len(eng.requests[3])
    /\ eng.failures = eng.requests[2]
    /\ eng.responses[2] = 201

\* C8: a dry run never prompts, never sends a delete request, never produces
\* a deleted count or a failed-IDs file; when it reports, it has requested a
\* token once and the reported list is the input ID list.
C8_DryRunIsInert ==
    (eng.pc # "idle" /\ eng.dry_run) =>
        /\ eng.prompts = 0
        /\ eng.pc # "confirm"
        /\ eng.requests = <<>>
        /\ eng.deleted = 0 /\ eng.failures = <<>>
        /\ eng.result # "deleted"
        /\ fail_file = <<>>
        /\ eng.pc = "returned" =>
               /\ eng.result = "DRY_RUN"
               /\ eng.token_calls = 1
               /\ eng.would_delete = <<ids_json>>

\* A dry run over more than one batch of ids has reported.
C8_Witness ==
    /\ eng.dry_run
    /\ eng.result = "DRY_RUN"
    /\ Len(ids_json) > 100
    /\ eng.would_delete = <<ids_json>>

C10_FailedIdsPersisted ==
    /\ (~eng.dry_run /\ eng.pc \in {"returned", "raised"} /\ eng.failures # <<>>) =>
           fail_file = <<eng.failures>>
    /\ fail_file # <<>> => eng.failures # <<>>

\* C11: a live run whose loop completed with failures still returns its
\* deletion outcome when the failed-IDs file cannot be written.
C11_WriteFailureNonFatal ==
    (/\ ~eng.dry_run
     /\ eng.pc \in {"returned", "raised"}
     /\ eng.i >= Len(eng.ids)
     /\ Len(eng.requests) = Len(eng.responses)
     /\ eng.failures # <<>>) =>
        (eng.pc = "returned" /\ eng.result = "deleted")

\* C12: when the credentials are missing or the token request is answered
\* with a status other than 200, the call ends in SystemExit: no delete
\* request was sent, nothing is counted as deleted or failed, no dry-run
\* report and no result are produced, and no failed-IDs file exists.
C12_AuthFailureAbortsBeforeAnyBatch ==
    /\ eng.auth \in {"no_credentials", "refused"} =>
           /\ eng.pc = "raised"
           /\ eng.result = "SystemExit"
           /\ mpc = "exit"
           /\ eng.requests = <<>>
           /\ eng.responses = <<>>
           /\ eng.deleted = 0
           /\ eng.failures = <<>>
           /\ eng.would_delete = <<>>
           /\ fail_file = <<>>
           /\ eng.token_calls = (IF eng.auth = "refused" THEN 1 ELSE 0)
    /\ eng.requests # <<>> => eng.auth = "ok"

\* The token request of a confirmed live run over a non-empty list was refused.
C12_Witness ==
    /\ eng.auth = "refused"
    /\ ~eng.dry_run
    /\ eng.prompts = 1
    /\ Len(eng.ids) > 100
    /\ eng.pc = "raised"

\* The destinations the loop has looked up so far, by row index.
LookedUp == [j \in 1 .. Len(xck.lookups) |-> xck.lookups[j].k]

\* The indices of the first n rows whose destination is not blank, in order.
RECURSIVE NonBlankUpTo(_)
NonBlankUpTo(n) ==
    IF n = 0 THEN <<>>
    ELSE IF xck.rows[n].destination \in {"", " "}
    THEN NonBlankUpTo(n - 1)
    ELSE Append(NonBlankUpTo(n - 1), n)

\* C13: whatever the lookups end in, no lookup ends the crosscheck (it ends
\* in an error only for want of a token or, all rows done, when the output
\* file cannot be written); the rows enriched so far are the input rows
\* in input order, unchanged but for observedInDefender; exactly the rows
\* with a non-blank destination were looked up, once each; a row whose
\* lookup failed or whose destination is blank carries an empty
\* observedInDefender; and the written CSV has every input row once.
C13_LookupFailureIsolated ==
    LET n == Len(xck.enriched_rows)
    IN  /\ xck.pc = "raised" =>
               \/ xck.token \in {"none", "raises"} /\ xck.lookups = <<>>
               \/ xck.result = "OSError" /\ n = Len(xck.rows)
        /\ xck.pc = "loop" => n = xck.k - 1
        /\ n <= Len(xck.rows)
        /\ \A j \in 1 .. n :
               /\ xck.enriched_rows[j].id = xck.rows[j].id
               /\ xck.enriched_rows[j].destination = xck.rows[j].destination
               /\ xck.rows[j].destination \in {"", " "} =>
                      xck.enriched_rows[j].observedInDefender = Blank
        /\ LookedUp = NonBlankUpTo(n)
        /\ \A j \in 1 .. Len(xck.lookups) :
               xck.lookups[j].outcome.kind \in {"error", "empty"} =>
                   xck.enriched_rows[xck.lookups[j].k].observedInDefender = Blank
        /\ (xck.pc = "loop" /\ xck.k <= Len(xck.rows)) => ENABLED LookupRow
        /\ (xck.pc = "loop" /\ xck.k > Len(xck.rows)) => ENABLED WriteEnriched
        /\ xck.result = "enriched" =>
               /\ n = Len(xck.rows)
               /\ xck.out = <<WriteCsv(xck.enriched_rows)>>
               /\ Len(xck.out[1]) = Len(xck.rows)

\* Two rows with an earlier observation: the first row's lookup failed and
\* its field was emptied, the second row's lookup answered and the enriched
\* CSV was written with both.
C13_Witness ==
    /\ xck.result = "enriched"
    /\ Len(xck.rows) = 2
    /\ Len(xck.lookups) = 2
    /\ xck.rows[1].observedInDefender # Blank
    /\ xck.lookups[1].outcome.kind = "error"
    /\ xck.lookups[2].outcome.kind = "rows"
    /\ xck.out[1][1].observedInDefender = Blank
    /\ xck.out[1][2].observedInDefender # Blank

\* C14: when the token cannot be obtained (a falsy token, or the request for
\* it raising), the stage ends in an error with no lookup issued, no row
\* enriched and no CSV written; a lookup is only ever issued with a token,
\* and a CSV that was written holds all the input rows.
C14_NoTokenNoEnrichment ==
    /\ xck.token \in {"none", "raises"} =>
           /\ xck.pc = "raised"
           /\ xck.lookups = <<>>
           /\ xck.enriched_rows = <<>>
           /\ xck.out = <<>>
    /\ xck.lookups # <<>> => xck.token = "token"
    /\ xck.out # <<>> =>
           (xck.pc = "returned" /\ xck.token = "token" /\ Len(xck.out[1]) = Len(xck.rows))

\* No token for a CSV of two rows with destinations to look up.
C14_Witness ==
    /\ xck.token = "none"
    /\ xck.pc = "raised"
    /\ Len(xck.rows) = 2
    /\ \A j \in 1 .. 2 : xck.rows[j].destination = "a.example"

\* C15: a delete request was only ever sent after the operator answered yes
\* to main()'s confirmation of a live deletion; answering no to the delete
\* question, to a confirmation or to the offer after a dry run ends the
\* workflow normally: nothing more happens, no delete request was sent and
\* the engine is idle or has returned.
C15_DeleteOnlyAfterConfirmation ==
    /\ eng.requests # <<>> => (preflight /\ ~eng.dry_run /\ eng.prompts = 1)
    /\ mpc = "done" => ~ENABLED NextDelete
    /\ (mpc = "done" /\ eng.result # "deleted") =>
           (eng.requests = <<>> /\ eng.pc \in {"idle", "returned"})
    /\ mpc \in {"ask_mode", "confirm", "offer_live", "confirm_after_dry"} =>
           (eng.requests = <<>> /\ eng.pc \in {"idle", "returned"})
    /\ mpc = "confirm" => ENABLED confirm_live(FALSE)
    /\ mpc = "offer_live" => ENABLED offer_live(FALSE)
    /\ mpc = "confirm_after_dry" => ENABLED confirm_after_dry(FALSE)

\* The operator ran a dry run and then declined the live deletion.
C15_Witness ==
    /\ mpc = "done"
    /\ ~preflight
    /\ eng.result = "DRY_RUN"
    /\ eng.ids # <<>>
    /\ eng.requests = <<>>

\* C16: a delete request is sent only when every earlier request has been
\* answered and followed by its pause, and it carries the next 100 ids of
\* the list, whatever the earlier answers were.
C16_SequentialWithPause ==
    [][Len(eng'.requests) > Len(eng.requests) =>
           /\ Len(eng'.requests) = Len(eng.requests) + 1
           /\ Len(eng.responses) = Len(eng.requests)
           /\ eng.sleeps = Len(eng.requests)
           /\ eng'.requests[Len(eng'.requests)] =
                  Chunk(eng.ids, BatchSize * Len(eng.requests), BatchSize)]_vars

\* The third request was sent after two pauses, the second batch having failed.
C16_Witness ==
    /\ Len(eng.requests) = 3
    /\ Len(eng.responses) >= 2
    /\ eng.responses[2] = 500
    /\ eng.sleeps = 2

\* The batches that were answered with a failure, in order.
FailedBatches ==
    LET failed == {k \in 1 .. Len(eng.responses) : ~Succeeded(k)}
    IN  [m \in 1 .. Cardinality(failed) |->
            CHOOSE k \in failed : Cardinality({h \in failed : h <= k}) = m]

\* The number of ids in the requests that were answered.
RECURSIVE SubmittedUpTo(_)
SubmittedUpTo(k) == IF k = 0 THEN 0 ELSE SubmittedUpTo(k - 1) + Len(eng.requests[k])

\* C17: request k starts where request k - 1 ended, so no position of the
\* list is sent twice and a failed batch is not sent again; between
\* iterations deleted + len(failures) is the number of ids submitted so far;
\* on completion it is the length of the list and the failed ids are a
\* subsequence of the list: slices of it taken at increasing positions.
C17_NoRetryNoDuplicate ==
    /\ \A k \in 1 .. Len(eng.requests) :
           eng.requests[k] =
               SubSeq(eng.ids, SubmittedUpTo(k - 1) + 1, SubmittedUpTo(k))
    /\ SubmittedUpTo(Len(eng.requests)) <= Len(eng.ids)
    /\ eng.deleted + Len(eng.failures) = SubmittedUpTo(Len(eng.responses))
    /\ eng.pc \in {"loop", "sleep"} => Len(eng.responses) = Len(eng.requests)
    /\ DeleteCompleted =>
           /\ eng.deleted + Len(eng.failures) = Len(eng.ids)
           /\ LET batches == FailedBatches
              IN  /\ Len(eng.failures) <= BatchSize * Len(batches)
                  /\ \A m \in 1 .. Len(batches) - 1 : batches[m] < batches[m + 1]
                  /\ \A m \in 1 .. Len(batches) :
                         SubSeq(eng.failures, BatchSize * (m - 1) + 1,
                                Min(BatchSize * m, Len(eng.failures)))
                             = SubSeq(eng.ids, BatchSize * (batches[m] - 1) + 1,
                                      Min(BatchSize * batches[m], Len(eng.ids)))

\* Batches 1 and 3 of 3 failed: the failed ids are the first 100 and the
\* last 50 of the list, the middle 100 are counted as deleted.
C17_Witness ==
    /\ eng.result = "deleted"
    /\ Len(eng.ids) = 250
    /\ Len(eng.responses) = 3
    /\ ~Succeeded(1) /\ Succeeded(2) /\ ~Succeeded(3)
    /\ eng.deleted = 100
    /\ Len(eng.failures) = 150

====
